---- MODULE Spec2Model ----
(***************************************************************************)
(* RTC basics console (main.c): the retry loops of rtc_init and            *)
(* set_new_time, the DST configuration flow set_dst_feature, the line      *)
(* collector fetch_time_data, the "%d %d %d %d %d %d" conversion and the   *)
(* calendar check validate_date_time.                                      *)
(*                                                                         *)
(* Bytes are one-character strings; NUL is the zero byte.  C ints are TLA+ *)
(* integers; where the C code converts an int to uint32_t the value is     *)
(* converted by ToU32.                                                     *)
(***************************************************************************)
EXTENDS Integers, Sequences, FiniteSets, TLC

VARIABLES
    pc,             \* position of the single thread of control
    dst_data_flag,  \* main.c:95, the persisted DST state
    cmd,            \* main(): uint8_t cmd
    dst_cmd,        \* set_dst_feature(): uint8_t dst_cmd
    fmt,            \* set_dst_feature(): uint8_t fmt
    mday, month, year, sec, min, hour,  \* the six int locals of the running flow
    dst_time,       \* set_dst_feature(): cy_stc_rtc_dst_t dst_time
    attempts,       \* rtc_init()/set_new_time(): uint32_t attempts
    rslt,           \* status of the last call (rslt / rtc_result)
    inv,            \* history of the running (or last finished) invocation
    v_in,           \* validate_date_time harness: the six arguments
    v_out,          \* validate_date_time harness: the returned value
    ftd             \* fetch_time_data harness: its frame, the line and the sink

locals == <<mday, month, year, sec, min, hour>>
harness == <<v_in, v_out, ftd>>
vars == <<pc, dst_data_flag, cmd, dst_cmd, fmt, mday, month, year, sec, min,
          hour, dst_time, attempts, rslt, inv, v_in, v_out, ftd>>

(***************************************************************************)
(* Macros of main.c                                                        *)
(***************************************************************************)
UART_TIMEOUT_MS == 10
INPUT_TIMEOUT_MS == 120000
MAX_ATTEMPTS == 500
STRING_BUFFER_SIZE == 80
MIN_SPACE_KEY_COUNT == 5

RTC_CMD_SET_DATE_TIME == "1"
RTC_CMD_CONFIG_DST == "2"
RTC_CMD_ENABLE_DST == "1"
\* variant: the Disable command given the code of Quit
RTC_CMD_DISABLE_DST_as_quit == "3"
RTC_CMD_DISABLE_DST == "2"
RTC_CMD_QUIT_CONFIG_DST == "3"
FIXED_DST_FORMAT == "1"
RELATIVE_DST_FORMAT == "2"

DST_DISABLED_FLAG == 0
DST_VALID_START_TIME_FLAG == 1
DST_VALID_END_TIME_FLAG == 2
DST_ENABLED_FLAG == 3

LEAP_YEAR_MONTH1 == 1
LEAP_YEAR_MONTH2 == 2

\* Status words.  CY_SCB_UART_RX_NO_DATA is the all-ones word 0xFFFFFFFF,
\* written here as the same bit pattern read as a signed int.
CY_RSLT_SUCCESS == 0
CY_RTC_SUCCESS == 0
\* any cy_en_rtc_status_t value other than CY_RTC_SUCCESS
CY_RTC_NOT_SUCCESS == 1
CY_SCB_UART_RX_NO_DATA == -1

NUL == "NUL"
NoByte == "NoByte"   \* Cy_SCB_UART_Get found the RX FIFO empty for a whole window

(***************************************************************************)
(* C integer conversions.  An int x converted to uint32_t is x when        *)
(* x >= 0 and x + 2^32 otherwise; the unsigned value is kept as two 16-bit *)
(* halves.                                                                 *)
(***************************************************************************)
ToU32(x) == [hi |-> (x \div 65536) % 65536, lo |-> x % 65536]
U32Add(a, b) ==
    LET l == a.lo + b.lo
        h == a.hi + b.hi + (l \div 65536)
    IN  [hi |-> h % 65536, lo |-> l % 65536]
U32Div(a, d) ==
    [hi |-> a.hi \div d, lo |-> (((a.hi % d) * 65536) + a.lo) \div d]
U32Rem(a, d) == (((a.hi % d) * (65536 % d)) + a.lo) % d
U32Dec(a) ==
    IF a.lo > 0 THEN [hi |-> a.hi, lo |-> a.lo - 1]
    ELSE [hi |-> (a.hi - 1) % 65536, lo |-> 65535]
\* (uint32_t)x <= c, for a constant 0 <= c < 2^16
U32Le(x, c) == ToU32(x).hi = 0 /\ ToU32(x).lo <= c
\* (uint32_t)x > 0U
U32Gt0(x) == ToU32(x) # ToU32(0)
\* (uint32_t)x % m, for a constant 0 < m < 2^15
U32Mod(x, m) == U32Rem(ToU32(x), m)

(***************************************************************************)
(* validate_date_time (main.c:703-740)                                     *)
(***************************************************************************)
CY_RTC_IS_SEC_VALID(s) == U32Le(s, 59)
CY_RTC_IS_MIN_VALID(m) == U32Le(m, 59)
CY_RTC_IS_HOUR_VALID(h) == U32Le(h, 23)
CY_RTC_IS_MONTH_VALID(mo) == U32Gt0(mo) /\ U32Le(mo, 12)
CY_RTC_IS_YEAR_LONG_VALID(y) == U32Gt0(y)

days_in_month_table == <<31, 28, 31, 30, 31, 30, 31, 31, 30, 31, 30, 31>>

IS_LEAP_YEAR(y) ==
    \/ (0 = U32Mod(y, 4)) /\ (0 # U32Mod(y, 100))
    \/ 0 = U32Mod(y, 400)

validate_date_time(s, mi, h, md, mo, y) ==
    LET r1 == /\ CY_RTC_IS_SEC_VALID(s)
              /\ CY_RTC_IS_MIN_VALID(mi)
              /\ CY_RTC_IS_HOUR_VALID(h)
              /\ CY_RTC_IS_MONTH_VALID(mo)
              /\ CY_RTC_IS_YEAR_LONG_VALID(y)
    IN  IF r1
        \* the C table is indexed from 0, the sequence from 1
        THEN LET base == days_in_month_table[(mo - LEAP_YEAR_MONTH1) + 1]
                 days_in_month ==
                     IF IS_LEAP_YEAR(y) /\ mo = LEAP_YEAR_MONTH2
                     THEN base + 1 ELSE base
             \* (mday > 0U) is an unsigned comparison; (mday <= days_in_month)
             \* compares two ints, days_in_month being a promoted uint8_t
             IN  U32Gt0(md) /\ md <= days_in_month
        ELSE FALSE

(***************************************************************************)
(* sscanf(buffer, "%d %d %d %d %d %d", &month, &mday, &hour, &min, &sec,   *)
(* &year) (main.c:417, 470, 595).  Each %d skips white space, takes an     *)
(* optional sign and then decimal digits; the first directive that finds   *)
(* no digit stops the conversion and leaves the remaining arguments        *)
(* untouched.                                                              *)
(***************************************************************************)
IsDigit(c) == c \in {"0", "1", "2", "3", "4", "5", "6", "7", "8", "9"}
IsSpace(c) == c \in {" ", "\t"}
DigitVal(c) ==
    CASE c = "0" -> 0 [] c = "1" -> 1 [] c = "2" -> 2 [] c = "3" -> 3
      [] c = "4" -> 4 [] c = "5" -> 5 [] c = "6" -> 6 [] c = "7" -> 7
      [] c = "8" -> 8 [] c = "9" -> 9

RECURSIVE skip_space(_, _)
skip_space(s, i) ==
    IF i <= Len(s) /\ IsSpace(s[i]) THEN skip_space(s, i + 1) ELSE i

RECURSIVE scan_digits(_, _, _)
scan_digits(s, i, acc) ==
    IF i <= Len(s) /\ IsDigit(s[i])
    THEN scan_digits(s, i + 1, (acc * 10) + DigitVal(s[i]))
    ELSE [val |-> acc, next |-> i]

\* one %d directive applied at position i
scan_int(s, i) ==
    LET j == skip_space(s, i)
        signed == j <= Len(s) /\ s[j] \in {"+", "-"}
        k == IF signed THEN j + 1 ELSE j
        d == scan_digits(s, k, 0)
    IN  IF k <= Len(s) /\ IsDigit(s[k])
        THEN [ok |-> TRUE,
              val |-> IF signed /\ s[j] = "-" THEN 0 - d.val ELSE d.val,
              next |-> d.next]
        ELSE [ok |-> FALSE, val |-> 0, next |-> i]

RECURSIVE scan_ints(_, _, _)
scan_ints(s, i, n) ==
    IF n = 0 THEN <<>>
    ELSE LET r == scan_int(s, i)
         IN  IF r.ok THEN <<r.val>> \o scan_ints(s, r.next, n - 1) ELSE <<>>

\* the values converted, in argument order: month, mday, hour, min, sec, year
sscanf(buf) == scan_ints(buf, 1, 6)

\* the characters sscanf reads from a line buffer: the array was all zero
\* before the collection (main.c:357-358, 576), so a line shorter than the
\* array is ended by a NUL inside it; a full array holds no NUL and the
\* conversion reads on in the bytes that follow the array in memory
c_string(buffer, beyond) ==
    IF Len(buffer) < STRING_BUFFER_SIZE THEN buffer ELSE buffer \o beyond

\* the value argument k holds after the call, given the value it held before
assigned(conv, k, old) == IF k <= Len(conv) THEN conv[k] ELSE old

(***************************************************************************)
(* fetch_time_data (main.c:642-681).  The input is what the UART delivers  *)
(* to the successive user_uart_getc(&ch, UART_TIMEOUT_MS) calls: a byte,   *)
(* or NoByte when the 10 ms window passed with the RX FIFO empty.  After   *)
(* the last element of the stream nothing more arrives.                    *)
(***************************************************************************)
\* user_uart_getc(&ch, UART_TIMEOUT_MS) on the head of the stream (main.c:274-296)
user_uart_getc(stream) ==
    IF stream = <<>> \/ Head(stream) = NoByte
    THEN [rslt |-> CY_SCB_UART_RX_NO_DATA, ch |-> NUL]
    ELSE [rslt |-> CY_RSLT_SUCCESS, ch |-> Head(stream)]

\* Cy_SCB_UART_Put returns the number of bytes placed in the TX FIFO
Cy_SCB_UART_Put(ch) == 1

\* number of loop passes a silent line takes to bring timeout_ms to <= UART_TIMEOUT_MS
silent_passes(timeout_ms) ==
    ((timeout_ms - UART_TIMEOUT_MS) + (UART_TIMEOUT_MS - 1)) \div UART_TIMEOUT_MS

\* one pass of the while loop (main.c:649-677) on the locals and the line
\* still to arrive: either the loop is left (done) with the status to
\* return, or the values the next pass starts from
fetch_pass(p) ==
    LET g == user_uart_getc(p.stream)
    IN  IF ~(p.index < STRING_BUFFER_SIZE) THEN [p EXCEPT !.done = TRUE]
        ELSE IF p.timeout_ms <= UART_TIMEOUT_MS
        THEN [p EXCEPT !.done = TRUE, !.rslt = CY_SCB_UART_RX_NO_DATA]
        ELSE IF p.stream = <<>>
        \* nothing will arrive any more: every further pass only runs line 676,
        \* so the passes up to the timeout test are taken in one step
        THEN [p EXCEPT !.timeout_ms =
                           @ - (UART_TIMEOUT_MS * silent_passes(p.timeout_ms)),
                       !.rslt = CY_SCB_UART_RX_NO_DATA]
        ELSE IF g.rslt # CY_SCB_UART_RX_NO_DATA
        THEN IF g.ch = "\n" \/ g.ch = "\r"
             THEN [p EXCEPT !.done = TRUE, !.rslt = g.rslt]
             ELSE [p EXCEPT !.stream = Tail(@),
                            !.timeout_ms = @ - UART_TIMEOUT_MS,
                            !.index = @ + 1,
                            !.buffer = Append(@, g.ch),
                            !.space_count = IF g.ch = " " THEN @ + 1 ELSE @,
                            !.out = Append(@, g.ch),
                            !.rslt = Cy_SCB_UART_Put(g.ch)]
        ELSE [p EXCEPT !.stream = Tail(@),
                       !.timeout_ms = @ - UART_TIMEOUT_MS,
                       !.rslt = g.rslt]

\* the loop, then Cy_SCB_UART_PutString("\n\r") and return (main.c:679-680)
RECURSIVE fetch_loop(_)
fetch_loop(p) ==
    IF p.done
    THEN [rslt |-> p.rslt, buffer |-> p.buffer, space_count |-> p.space_count,
          out |-> p.out \o <<"\n", "\r">>, timeout_ms |-> p.timeout_ms]
    ELSE fetch_loop(fetch_pass(p))

\* the locals at entry: index = 0, *space_count = 0 (main.c:645-648)
fetch_time_data(stream, timeout_ms) ==
    fetch_loop([done |-> FALSE, stream |-> stream, timeout_ms |-> timeout_ms,
                index |-> 0, buffer |-> <<>>, space_count |-> 0,
                out |-> <<>>, rslt |-> CY_RSLT_SUCCESS])

(***************************************************************************)
(* The same function statement by statement, for the properties of the     *)
(* loop itself.  timeout_ms is a uint32_t: the integer kept here stands    *)
(* for its value modulo 2^32 (ToU32), so a subtraction that passes zero    *)
(* shows as a negative integer and tests as the large value it wraps to.   *)
(***************************************************************************)
\* a loop condition that lets one more cell be written
buffer_has_room_inclusive(index) == index <= STRING_BUFFER_SIZE

\* while (index < STRING_BUFFER_SIZE)                           (main.c:649)
buffer_has_room(index) == index < STRING_BUFFER_SIZE

\* a budget test that fires only at zero
budget_spent_at_zero(timeout_ms) == U32Le(timeout_ms, 0)

\* if (timeout_ms <= UART_TIMEOUT_MS)                           (main.c:651)
budget_spent(timeout_ms) == U32Le(timeout_ms, UART_TIMEOUT_MS)

\* a terminator test that knows the line feed only
is_terminator_lf_only(ch) == ch = "\n"

\* if (ch == '\n' || ch == '\r')                                (main.c:662)
is_terminator(ch) == ch = "\n" \/ ch = "\r"

\* else if (ch == ' ') (*space_count)++                     (main.c:666-669)
count_space(ch, space_count) ==
    IF ch = " " THEN space_count + 1 ELSE space_count

\* buffer[index] = ch: the cell written                         (main.c:671)
store(buffer, index, ch) ==
    [i \in (DOMAIN buffer) \cup {index} |->
        IF i = index THEN ch ELSE buffer[i]]

\* a loop that does not echo
echo_dropped(out, ch) == out

\* Cy_SCB_UART_Put(USER_UART_HW, ch): the byte handed to the sink (main.c:672)
echo(out, ch) == Append(out, ch)

\* a pass that is not charged to the budget
spend_nothing(timeout_ms) == timeout_ms

\* timeout_ms -= UART_TIMEOUT_MS                                (main.c:676)
spend(timeout_ms) == timeout_ms - UART_TIMEOUT_MS

\* Cy_SCB_UART_PutString(USER_UART_HW, "\n\r")                  (main.c:679)
end_of_line(out) == out \o <<"\n", "\r">>

\* the frame on entry (main.c:645-648): rslt is not initialised; the fields
\* after rslt record the call for the properties (the line delivered, the
\* budget passed, the calls of user_uart_getc, the cells written, the sink)
frame(stream, timeout_ms, uninit) ==
    [stream |-> stream, timeout_ms |-> timeout_ms, index |-> 0, ch |-> NUL,
     space_count |-> 0, buffer |-> <<>>, rslt |-> uninit,
     line |-> stream, budget |-> timeout_ms, reads |-> 0, written |-> <<>>,
     out |-> <<>>]

(***************************************************************************)
(* Cy_RTC_ConvertDayOfWeek(day, month, year), the driver's Zeller          *)
(* congruence on uint32_t arguments, as called at main.c:431, 436, 484 and *)
(* 489 (always after validate_date_time accepted month, so month is in     *)
(* 1..12).  The sum wraps modulo 2^32 before the remainder is taken.       *)
(***************************************************************************)
Cy_RTC_ConvertDayOfWeek(day, mo, y) ==
    LET m2 == IF mo < 3 THEN 12 + mo ELSE mo
        y2 == IF mo < 3 THEN U32Dec(ToU32(y)) ELSE ToU32(y)
        c100 == U32Div(y2, 100)
        six == U32Add(U32Add(U32Add(c100, c100), U32Add(c100, c100)),
                      U32Add(c100, c100))
        total == U32Add(U32Add(U32Add(ToU32(day), ToU32(((m2 + 1) * 26) \div 10)),
                               U32Add(y2, U32Div(y2, 4))),
                        U32Add(six, U32Div(y2, 400)))
        retVal == U32Rem(total, 7)
    IN  IF retVal = 0 THEN 7 ELSE retVal

(***************************************************************************)
(* DST transition points (cy_stc_rtc_dst_format_t, all fields uint32_t)    *)
(***************************************************************************)
CY_RTC_DST_RELATIVE == "CY_RTC_DST_RELATIVE"
CY_RTC_DST_FIXED == "CY_RTC_DST_FIXED"

\* variant: hour and month stored in each other's field
dst_point_swapped(f, h, mo, md, y) ==
    [format |-> IF f = FIXED_DST_FORMAT THEN CY_RTC_DST_FIXED
                ELSE CY_RTC_DST_RELATIVE,
     hour |-> ToU32(mo),
     month |-> ToU32(h),
     dayOfWeek |-> IF f = FIXED_DST_FORMAT THEN ToU32(1)
                   ELSE ToU32(Cy_RTC_ConvertDayOfWeek(md, mo, y)),
     dayOfMonth |-> IF f = FIXED_DST_FORMAT THEN ToU32(md) ELSE ToU32(1),
     weekOfMonth |-> IF f = FIXED_DST_FORMAT THEN ToU32(1)
                     ELSE ToU32(Cy_RTC_ConvertDayOfWeek(md, mo, y))]

\* main.c:424-436 (startDst) and main.c:478-489 (stopDst)
dst_point(f, h, mo, md, y) ==
    [format |-> IF f = FIXED_DST_FORMAT THEN CY_RTC_DST_FIXED
                ELSE CY_RTC_DST_RELATIVE,
     hour |-> ToU32(h),
     month |-> ToU32(mo),
     dayOfWeek |-> IF f = FIXED_DST_FORMAT THEN ToU32(1)
                   ELSE ToU32(Cy_RTC_ConvertDayOfWeek(md, mo, y)),
     dayOfMonth |-> IF f = FIXED_DST_FORMAT THEN ToU32(md) ELSE ToU32(1),
     weekOfMonth |-> IF f = FIXED_DST_FORMAT THEN ToU32(1)
                     ELSE ToU32(Cy_RTC_ConvertDayOfWeek(md, mo, y))]

\* variant: a zeroed structure, month and days left at 0
disable_point_zeroed ==
    [format |-> CY_RTC_DST_FIXED,
     hour |-> ToU32(0),
     month |-> ToU32(0),
     dayOfWeek |-> ToU32(0),
     dayOfMonth |-> ToU32(0),
     weekOfMonth |-> ToU32(0)]

\* main.c:530-535
disable_point ==
    [format |-> CY_RTC_DST_FIXED,
     hour |-> ToU32(0),
     month |-> ToU32(1),
     dayOfWeek |-> ToU32(1),
     dayOfMonth |-> ToU32(1),
     weekOfMonth |-> ToU32(1)]

\* main.c:421-422 and main.c:474-476
accepted(f, s, mi, h, md, mo, y) ==
    /\ validate_date_time(s, mi, h, md, mo, y)
    /\ (f = FIXED_DST_FORMAT \/ f = RELATIVE_DST_FORMAT)

(***************************************************************************)
(* The environment: what the terminal sends and what the driver answers    *)
(***************************************************************************)
\* a well-formed entry, ended by CR
Line_Mar15 ==
    <<"0", "3", " ", "1", "5", " ", "1", "0", " ", "0", "0", " ", "0", "0", " ", "2", "4", "\r">>
\* a well-formed entry, ended by LF
Line_Nov01 ==
    <<"1", "1", " ", "0", "1", " ", "1", "0", " ", "0", "0", " ", "0", "0", " ", "2", "4", "\n">>
\* a well-formed entry typed with a pause (leap day)
Line_Feb29 ==
    <<"0", NoByte, "2", " ", "2", "9", " ", "2", "3", " ", "5", "9", " ", "5", "9", " ", "2", "4", "\r">>
\* only 4 spaces
Line_4Spaces ==
    <<"0", "3", " ", "1", "5", " ", "1", "0", " ", "0", "0", " ", "0", "0", "2", "4", "\r">>
\* 5 spaces, day beyond the month
Line_Feb30 ==
    <<"0", "2", " ", "3", "0", " ", "1", "0", " ", "0", "0", " ", "0", "0", " ", "2", "4", "\r">>
\* 5 spaces, fields out of range
Line_Range ==
    <<"1", "3", " ", "4", "0", " ", "2", "5", " ", "6", "1", " ", "6", "1", " ", "2", "4", "\r">>
\* 5 spaces, no integer at all
Line_Alpha ==
    <<"a", " ", "b", " ", "c", " ", "d", " ", "e", " ", "f", "\r">>
\* 5 spaces, two integers only
Line_Short ==
    <<"1", "2", " ", "2", "5", " ", " ", " ", " ", "\r">>
\* nothing is typed
Line_Silent ==
    <<>>
\* typing stops before any terminator
Line_NoEnd ==
    <<"0", "3", " ", "1", "5">>

\* a field of an entry written with leading zeros
zero_padded(field, width) ==
    [i \in 1 .. width |->
        IF i <= width - Len(field) THEN "0"
        ELSE field[i - (width - Len(field))]]

\* the entry of Line_Mar15 written with leading zeros so that its last
\* digit fills the last cell of the buffer; no terminator follows
Line_Long ==
    zero_padded(<<"0", "3">>, 13) \o <<" ">> \o
    zero_padded(<<"1", "5">>, 13) \o <<" ">> \o
    zero_padded(<<"1", "0">>, 13) \o <<" ">> \o
    zero_padded(<<"0", "0">>, 12) \o <<" ">> \o
    zero_padded(<<"0", "0">>, 12) \o <<" ">> \o
    zero_padded(<<"2", "4">>, 12)

Lines == {Line_Mar15, Line_Nov01, Line_Feb29, Line_4Spaces, Line_Feb30, Line_Range, Line_Alpha, Line_Short, Line_Silent, Line_NoEnd, Line_Long}

\* what the memory after a line buffer may hold up to its first byte that
\* is not a digit
Beyond == {<<>>, <<"7">>}

\* bytes a single-byte read may deliver
Bytes == {"1", "2", "3", "x"}

\* status a driver call may report
Cy_RTC_Status == {CY_RTC_SUCCESS, CY_RTC_NOT_SUCCESS}

\* contents an automatic variable may hold before it is first written
UninitByte == {NUL, "1", "2"}
UninitInts == {[month |-> 0, mday |-> 0, hour |-> 0, min |-> 0, sec |-> 0, year |-> 0],
               [month |-> 7, mday |-> 4, hour |-> 99, min |-> 0 - 1, sec |-> 5, year |-> 24]}
UninitPoint ==
    [format |-> CY_RTC_DST_RELATIVE, hour |-> ToU32(0 - 1), month |-> ToU32(0),
     dayOfWeek |-> ToU32(9), dayOfMonth |-> ToU32(0), weekOfMonth |-> ToU32(0)]
UninitDst == {[startDst |-> UninitPoint, stopDst |-> UninitPoint],
              [startDst |-> disable_point, stopDst |-> UninitPoint]}

(***************************************************************************)
(* History of one invocation.  inv is rewritten when main() calls          *)
(* set_new_time or set_dst_feature and keeps, after the return, what the   *)
(* finished invocation did.                                                *)
(***************************************************************************)
NewInv(f, flag, msgs) ==
    [func |-> f,              \* the function running, or the last one that ran
     entry_flag |-> flag,     \* dst_data_flag when it was entered
     path |-> "none",         \* DST sub-menu choice
     cmd_res |-> "none",      \* outcome of each input step
     fmt_res |-> "none",
     start_res |-> "none",
     end_res |-> "none",
     line_res |-> "none",
     start_buf |-> <<>>,      \* the collected lines
     end_buf |-> <<>>,
     line_buf |-> <<>>,
     start_str |-> <<>>,      \* the characters sscanf read of the lines
     end_str |-> <<>>,
     flags |-> <<>>,          \* values written to dst_data_flag, in order
     dst_writes |-> <<>>,     \* Cy_RTC_EnableDstTime calls, in order
     hw_calls |-> 0,          \* Cy_RTC_Init / Cy_RTC_SetDateAndTimeDirect calls
     hw_failed |-> 0,         \* ... of which reported failure
     set_args |-> <<>>,       \* arguments of Cy_RTC_SetDateAndTimeDirect
     budgets |-> <<>>,        \* timeout passed to each input step, and ms waited before it
     waited |-> 0,            \* ms spent so far in empty waits for input
     committed |-> "none",    \* path of the last successful Cy_RTC_EnableDstTime
                              \* call since reset (kept across invocations)
     out |-> msgs]            \* messages written to the terminal

Say(h, m) == [h EXCEPT !.out = Append(@, m)]

\* an input step called with the timeout budget that waited ms for input
Wait(h, budget, ms) ==
    [h EXCEPT !.budgets = Append(@, [given |-> budget, spent |-> h.waited]),
              !.waited = @ + ms]

\* user_uart_getc(&b, timeout_ms) (main.c:274-296): a timeout is reported
\* after timeout_ms delays of 1 ms; a byte that is there is read at once
getc_wait(b, timeout_ms) == IF b = NoByte THEN timeout_ms ELSE 0

\* fetch_time_data: every pass that stored nothing waited UART_TIMEOUT_MS in
\* user_uart_getc (main.c:658, 676); f is the result, timeout_ms the budget
fetch_wait(f, timeout_ms) ==
    (((timeout_ms - f.timeout_ms) \div UART_TIMEOUT_MS) - Len(f.buffer))
        * UART_TIMEOUT_MS

\* variant: the loop runs until the attempts are used up, success or not
retry_until_exhausted(r, att) == att # 0

\* the do-while condition of main.c:253 and main.c:606
retry(r, att) == (r # CY_RTC_SUCCESS) /\ (att # 0)

\* uint32_t attempts; attempts--
decrement(att) == IF att = 0 THEN 0 - 1 ELSE att - 1

Init ==
    /\ pc = "rtc_init"
    /\ dst_data_flag = 0
    /\ cmd \in UninitByte
    /\ dst_cmd = NUL
    /\ fmt = NUL
    /\ mday = 0 /\ month = 0 /\ year = 0 /\ sec = 0 /\ min = 0 /\ hour = 0
    /\ dst_time = [startDst |-> UninitPoint, stopDst |-> UninitPoint]
    /\ attempts = MAX_ATTEMPTS
    /\ rslt = CY_RTC_NOT_SUCCESS
    /\ inv = NewInv("rtc_init", 0, <<>>)
    /\ v_in = [sec |-> 0, min |-> 0, hour |-> 0, mday |-> 0, month |-> 0, year |-> 0]
    /\ v_out = FALSE
    /\ ftd = frame(<<>>, 0, CY_RSLT_SUCCESS)

\* handle_error (main.c:127-133): interrupts off, CY_ASSERT(0) halts
handle_error == pc' = "halted"

(***************************************************************************)
(* rtc_init (main.c:240-257) and its caller (main.c:186-197)               *)
(***************************************************************************)
rtc_init_attempt ==
    /\ pc = "rtc_init"
    /\ \E r \in Cy_RTC_Status :
          /\ rslt' = r
          /\ attempts' = decrement(attempts)
          /\ inv' = [inv EXCEPT !.hw_calls = @ + 1,
                                !.hw_failed = IF r = CY_RTC_SUCCESS THEN @ ELSE @ + 1]
          /\ pc' = IF retry(r, attempts') THEN "rtc_init" ELSE "rtc_init_ret"
    /\ UNCHANGED <<dst_data_flag, cmd, dst_cmd, fmt, locals, dst_time, harness>>

main_after_init ==
    /\ pc = "rtc_init_ret"
    /\ IF rslt # CY_RTC_SUCCESS THEN handle_error ELSE pc' = "main"
    /\ UNCHANGED <<dst_data_flag, cmd, dst_cmd, fmt, locals, dst_time, attempts,
                   rslt, inv, harness>>

(***************************************************************************)
(* main loop (main.c:199-224), up to the first read of the function called *)
(***************************************************************************)
\* set_dst_feature, main.c:355-388
enter_set_dst_feature ==
    /\ dst_cmd' = NUL
    /\ fmt' = NUL
    /\ mday' = 0 /\ month' = 0 /\ year' = 0 /\ sec' = 0 /\ min' = 0 /\ hour' = 0
    /\ dst_time' \in UninitDst
    /\ \E active \in BOOLEAN :
          inv' = [NewInv("set_dst_feature", dst_data_flag,
                         IF DST_ENABLED_FLAG = dst_data_flag
                         THEN IF active THEN <<"Status Active">>
                              ELSE <<"Status Inactive">>
                         ELSE <<"Status Disabled">>)
                  EXCEPT !.committed = inv.committed]
    /\ pc' = "dst_cmd"
    \* variables of the other functions do not exist during this call
    /\ attempts' = MAX_ATTEMPTS
    /\ rslt' = CY_RSLT_SUCCESS
    /\ UNCHANGED dst_data_flag

\* set_new_time, main.c:575-583
enter_set_new_time ==
    /\ attempts' = MAX_ATTEMPTS
    /\ \E u \in UninitInts :
          /\ mday' = u.mday /\ month' = u.month /\ year' = u.year
          /\ sec' = u.sec /\ min' = u.min /\ hour' = u.hour
    /\ inv' = [NewInv("set_new_time", dst_data_flag, <<"Enter time">>)
                EXCEPT !.committed = inv.committed]
    /\ pc' = "snt_line"
    \* variables of the other functions do not exist during this call
    /\ dst_cmd' = NUL
    /\ fmt' = NUL
    /\ dst_time' = [startDst |-> UninitPoint, stopDst |-> UninitPoint]
    /\ rslt' = CY_RSLT_SUCCESS
    /\ UNCHANGED dst_data_flag

main_poll ==
    /\ pc = "main"
    /\ \E b \in Bytes \cup {NoByte} :
          LET c == IF b = NoByte THEN cmd ELSE b
          IN  IF RTC_CMD_SET_DATE_TIME = c
              THEN cmd' = NUL /\ enter_set_new_time
              ELSE IF RTC_CMD_CONFIG_DST = c
              THEN cmd' = NUL /\ enter_set_dst_feature
              ELSE /\ cmd' = c
                   /\ UNCHANGED <<pc, dst_data_flag, dst_cmd, fmt, locals,
                                  dst_time, attempts, rslt, inv>>
    /\ UNCHANGED harness

(***************************************************************************)
(* set_dst_feature (main.c:353-558)                                        *)
(***************************************************************************)
\* main.c:390-394 and 528-557
dst_read_cmd ==
    /\ pc = "dst_cmd"
    /\ \E b \in Bytes \cup {NoByte} :
          LET h == Wait(inv, INPUT_TIMEOUT_MS, getc_wait(b, INPUT_TIMEOUT_MS)) IN
          IF b = NoByte
          THEN /\ rslt' = CY_SCB_UART_RX_NO_DATA
               /\ inv' = Say([h EXCEPT !.cmd_res = "timeout"], "Timeout")
               /\ pc' = "main"
               /\ UNCHANGED <<dst_cmd, dst_time>>
          ELSE /\ rslt' = CY_RSLT_SUCCESS
               /\ dst_cmd' = b
               /\ IF RTC_CMD_ENABLE_DST = b
                  THEN /\ inv' = Say([h EXCEPT !.cmd_res = "ok", !.path = "enable"],
                                     "Enter DST format")
                       /\ pc' = "dst_fmt"
                       /\ UNCHANGED dst_time
                  ELSE IF RTC_CMD_DISABLE_DST = b
                  THEN /\ inv' = [h EXCEPT !.cmd_res = "ok", !.path = "disable"]
                       /\ dst_time' = [startDst |-> disable_point,
                                       stopDst |-> disable_point]
                       /\ pc' = "dst_disable"
                  ELSE IF RTC_CMD_QUIT_CONFIG_DST = b
                  THEN /\ inv' = Say([h EXCEPT !.cmd_res = "ok", !.path = "quit"],
                                     "Exit from DST Configuration")
                       /\ pc' = "main"
                       /\ UNCHANGED dst_time
                  ELSE /\ inv' = [h EXCEPT !.cmd_res = "ok", !.path = "other"]
                       /\ pc' = "main"
                       /\ UNCHANGED dst_time
    /\ UNCHANGED <<dst_data_flag, cmd, fmt, locals, attempts, harness>>

\* main.c:401-404 and 523-526
dst_read_fmt ==
    /\ pc = "dst_fmt"
    /\ \E b \in Bytes \cup {NoByte} :
          LET h == Wait(inv, INPUT_TIMEOUT_MS, getc_wait(b, INPUT_TIMEOUT_MS)) IN
          IF b = NoByte
          THEN /\ rslt' = CY_SCB_UART_RX_NO_DATA
               /\ inv' = Say([h EXCEPT !.fmt_res = "timeout"], "Timeout")
               /\ pc' = "main"
               /\ UNCHANGED fmt
          ELSE /\ rslt' = CY_RSLT_SUCCESS
               /\ fmt' = b
               /\ inv' = Say([h EXCEPT !.fmt_res = "ok"], "Enter DST start time")
               /\ pc' = "dst_start"
    /\ UNCHANGED <<dst_data_flag, cmd, dst_cmd, locals, dst_time, attempts, harness>>

\* where control goes after the start-time block: main.c:453 and 508
after_start(flag) ==
    IF DST_VALID_START_TIME_FLAG = flag THEN "dst_end"
    ELSE IF DST_VALID_END_TIME_FLAG = flag THEN "dst_enable"
    ELSE "main"

\* where control goes after the end-time block: main.c:508
after_end(flag) ==
    IF DST_VALID_END_TIME_FLAG = flag THEN "dst_enable" ELSE "main"

\* main.c:405-453
dst_read_start ==
    /\ pc = "dst_start"
    /\ \E stream \in Lines, beyond \in Beyond :
          LET f == fetch_time_data(stream, INPUT_TIMEOUT_MS)
              conv == sscanf(c_string(f.buffer, beyond))
              mo == assigned(conv, 1, month)
              md == assigned(conv, 2, mday)
              h == assigned(conv, 3, hour)
              mi == assigned(conv, 4, min)
              s == assigned(conv, 5, sec)
              y == assigned(conv, 6, year)
              h0 == [Wait(inv, INPUT_TIMEOUT_MS, fetch_wait(f, INPUT_TIMEOUT_MS))
                       EXCEPT !.start_buf = f.buffer,
                              !.start_str = c_string(f.buffer, beyond)]
          IN  /\ rslt' = f.rslt
              /\ IF f.rslt # CY_SCB_UART_RX_NO_DATA
                 THEN IF f.space_count # MIN_SPACE_KEY_COUNT
                      THEN /\ inv' = Say([h0 EXCEPT !.start_res = "invalid"],
                                         "Invalid values")
                           /\ UNCHANGED <<dst_data_flag, locals, dst_time>>
                      ELSE /\ month' = mo /\ mday' = md /\ hour' = h
                           /\ min' = mi /\ sec' = s /\ year' = y
                           /\ IF accepted(fmt, s, mi, h, md, mo, y)
                              THEN /\ dst_time' = [dst_time EXCEPT !.startDst =
                                                     dst_point(fmt, h, mo, md, y)]
                                   /\ dst_data_flag' = DST_VALID_START_TIME_FLAG
                                   /\ inv' = [h0 EXCEPT
                                        !.start_res = "valid",
                                        !.flags = Append(@, DST_VALID_START_TIME_FLAG)]
                              ELSE /\ inv' = Say([h0 EXCEPT !.start_res = "invalid"],
                                                 "Invalid values")
                                   /\ UNCHANGED <<dst_data_flag, dst_time>>
                 ELSE /\ inv' = Say([h0 EXCEPT !.start_res = "timeout"], "Timeout")
                      /\ UNCHANGED <<dst_data_flag, locals, dst_time>>
    /\ pc' = after_start(dst_data_flag')
    /\ UNCHANGED <<cmd, dst_cmd, fmt, attempts, harness>>

\* main.c:457-508
dst_read_end ==
    /\ pc = "dst_end"
    /\ \E stream \in Lines, beyond \in Beyond :
          LET f == fetch_time_data(stream, INPUT_TIMEOUT_MS)
              conv == sscanf(c_string(f.buffer, beyond))
              mo == assigned(conv, 1, month)
              md == assigned(conv, 2, mday)
              h == assigned(conv, 3, hour)
              mi == assigned(conv, 4, min)
              s == assigned(conv, 5, sec)
              y == assigned(conv, 6, year)
              h0 == Say([Wait(inv, INPUT_TIMEOUT_MS, fetch_wait(f, INPUT_TIMEOUT_MS))
                       EXCEPT !.end_buf = f.buffer,
                              !.end_str = c_string(f.buffer, beyond)],
                      "Enter DST end time")
          IN  /\ rslt' = f.rslt
              /\ IF f.rslt # CY_SCB_UART_RX_NO_DATA
                 THEN IF f.space_count # MIN_SPACE_KEY_COUNT
                      THEN /\ inv' = Say([h0 EXCEPT !.end_res = "invalid"],
                                         "Invalid values")
                           /\ UNCHANGED <<dst_data_flag, locals, dst_time>>
                      ELSE /\ month' = mo /\ mday' = md /\ hour' = h
                           /\ min' = mi /\ sec' = s /\ year' = y
                           /\ IF accepted(fmt, s, mi, h, md, mo, y)
                              THEN /\ dst_time' = [dst_time EXCEPT !.stopDst =
                                                     dst_point(fmt, h, mo, md, y)]
                                   /\ dst_data_flag' = DST_VALID_END_TIME_FLAG
                                   /\ inv' = [h0 EXCEPT
                                        !.end_res = "valid",
                                        !.flags = Append(@, DST_VALID_END_TIME_FLAG)]
                              ELSE /\ inv' = Say([h0 EXCEPT !.end_res = "invalid"],
                                                 "Invalid values")
                                   /\ UNCHANGED <<dst_data_flag, dst_time>>
                 ELSE /\ inv' = Say([h0 EXCEPT !.end_res = "timeout"], "Timeout")
                      /\ UNCHANGED <<dst_data_flag, locals, dst_time>>
    /\ pc' = after_end(dst_data_flag')
    /\ UNCHANGED <<cmd, dst_cmd, fmt, attempts, harness>>

\* variant: a failed write is tried again instead of being fatal
enable_outcome_retrying(r) ==
    IF CY_RTC_SUCCESS = r
    THEN /\ dst_data_flag' = DST_ENABLED_FLAG
         /\ inv' = Say([inv EXCEPT
                          !.dst_writes = Append(@, [dst |-> dst_time, status |-> r]),
                          !.committed = "enable",
                          !.flags = Append(@, DST_ENABLED_FLAG)],
                       "DST time updated")
         /\ pc' = "main"
    ELSE /\ inv' = [inv EXCEPT
                      !.dst_writes = Append(@, [dst |-> dst_time, status |-> r])]
         /\ pc' = "dst_enable"
         /\ UNCHANGED dst_data_flag

\* what follows the answer r of Cy_RTC_EnableDstTime: main.c:512-520
enable_outcome(r) ==
    IF CY_RTC_SUCCESS = r
    THEN /\ dst_data_flag' = DST_ENABLED_FLAG
         /\ inv' = Say([inv EXCEPT
                          !.dst_writes = Append(@, [dst |-> dst_time, status |-> r]),
                          !.committed = "enable",
                          !.flags = Append(@, DST_ENABLED_FLAG)],
                       "DST time updated")
         /\ pc' = "main"
    ELSE /\ inv' = [inv EXCEPT
                      !.dst_writes = Append(@, [dst |-> dst_time, status |-> r])]
         /\ handle_error
         /\ UNCHANGED dst_data_flag

\* main.c:511-520
dst_enable_write ==
    /\ pc = "dst_enable"
    /\ \E r \in Cy_RTC_Status :
          /\ rslt' = r
          /\ enable_outcome(r)
    /\ UNCHANGED <<cmd, dst_cmd, fmt, locals, dst_time, attempts, harness>>

\* what follows the answer r of Cy_RTC_EnableDstTime: main.c:539-547
disable_outcome(r) ==
    IF CY_RTC_SUCCESS = r
    THEN /\ dst_data_flag' = DST_DISABLED_FLAG
         /\ inv' = Say([inv EXCEPT
                          !.dst_writes = Append(@, [dst |-> dst_time, status |-> r]),
                          !.committed = "disable",
                          !.flags = Append(@, DST_DISABLED_FLAG)],
                       "DST feature disabled")
         /\ pc' = "main"
    ELSE /\ inv' = [inv EXCEPT
                      !.dst_writes = Append(@, [dst |-> dst_time, status |-> r])]
         /\ handle_error
         /\ UNCHANGED dst_data_flag

\* main.c:538-547
dst_disable_write ==
    /\ pc = "dst_disable"
    /\ \E r \in Cy_RTC_Status :
          /\ rslt' = r
          /\ disable_outcome(r)
    /\ UNCHANGED <<cmd, dst_cmd, fmt, locals, dst_time, attempts, harness>>

(***************************************************************************)
(* set_new_time (main.c:573-622)                                           *)
(***************************************************************************)
\* main.c:584-597 and 618-621
snt_read_line ==
    /\ pc = "snt_line"
    /\ \E stream \in Lines, beyond \in Beyond :
          LET f == fetch_time_data(stream, INPUT_TIMEOUT_MS)
              conv == sscanf(c_string(f.buffer, beyond))
              h0 == [Wait(inv, INPUT_TIMEOUT_MS, fetch_wait(f, INPUT_TIMEOUT_MS))
                       EXCEPT !.line_buf = f.buffer]
          IN  /\ rslt' = f.rslt
              /\ IF f.rslt # CY_SCB_UART_RX_NO_DATA
                 THEN IF f.space_count # MIN_SPACE_KEY_COUNT
                      THEN /\ inv' = Say([h0 EXCEPT !.line_res = "invalid"],
                                         "Invalid values")
                           /\ pc' = "main"
                           /\ UNCHANGED locals
                      ELSE /\ month' = assigned(conv, 1, month)
                           /\ mday' = assigned(conv, 2, mday)
                           /\ hour' = assigned(conv, 3, hour)
                           /\ min' = assigned(conv, 4, min)
                           /\ sec' = assigned(conv, 5, sec)
                           /\ year' = assigned(conv, 6, year)
                           /\ inv' = [h0 EXCEPT !.line_res = "parsed"]
                           /\ pc' = "snt_set"
                 ELSE /\ inv' = Say([h0 EXCEPT !.line_res = "timeout"], "Timeout")
                      /\ pc' = "main"
                      /\ UNCHANGED locals
    /\ UNCHANGED <<dst_data_flag, cmd, dst_cmd, fmt, dst_time, attempts, harness>>

\* one pass of the do-while, main.c:599-606
snt_attempt ==
    /\ pc = "snt_set"
    /\ \E r \in Cy_RTC_Status :
          /\ rslt' = r
          /\ attempts' = decrement(attempts)
          /\ inv' = [inv EXCEPT
                       !.hw_calls = @ + 1,
                       !.hw_failed = IF r = CY_RTC_SUCCESS THEN @ ELSE @ + 1,
                       !.set_args = <<ToU32(sec), ToU32(min), ToU32(hour),
                                      ToU32(mday), ToU32(month), ToU32(year)>>]
          /\ pc' = IF retry(r, attempts') THEN "snt_set" ELSE "snt_done"
    /\ UNCHANGED <<dst_data_flag, cmd, dst_cmd, fmt, locals, dst_time, harness>>

\* main.c:608-615
snt_finish ==
    /\ pc = "snt_done"
    /\ IF CY_RTC_SUCCESS # rslt
       THEN /\ inv' = Say(Say(inv, "RTC time updated"), "Invalid values")
            /\ handle_error
       ELSE /\ inv' = Say(inv, "RTC time updated")
            /\ pc' = "main"
    /\ UNCHANGED <<dst_data_flag, cmd, dst_cmd, fmt, locals, dst_time, attempts,
                   rslt, harness>>

Next ==
    \/ rtc_init_attempt
    \/ main_after_init
    \/ main_poll
    \/ dst_read_cmd
    \/ dst_read_fmt
    \/ dst_read_start
    \/ dst_read_end
    \/ dst_enable_write
    \/ dst_disable_write
    \/ snt_read_line
    \/ snt_attempt
    \/ snt_finish

Spec == Init /\ [][Next]_vars

\* the processor keeps executing: a step that can be taken is taken
FairSpec == Spec /\ WF_vars(Next)

(***************************************************************************)
(* validate_date_time called on its own, on arguments drawn from sets that *)
(* straddle every limit the function tests                                 *)
(***************************************************************************)
DayMargin == 2
SecInputs == {0 - 1, 0, 59, 60}
MinInputs == {59, 60}
HourInputs == {23, 24}
DayInputs == (0 - DayMargin) .. (31 + DayMargin)
MonthInputs == {0, 1, 2, 4, 12, 13}
YearInputs == {0 - 4, 0, 1, 24, 1900, 2000}

InitValidate ==
    /\ pc = "validate_call"
    /\ dst_data_flag = 0
    /\ cmd = NUL
    /\ dst_cmd = NUL
    /\ fmt = NUL
    /\ mday = 0 /\ month = 0 /\ year = 0 /\ sec = 0 /\ min = 0 /\ hour = 0
    /\ dst_time = [startDst |-> UninitPoint, stopDst |-> UninitPoint]
    /\ attempts = MAX_ATTEMPTS
    /\ rslt = CY_RSLT_SUCCESS
    /\ inv = NewInv("validate_date_time", 0, <<>>)
    /\ v_in \in [sec : SecInputs, min : MinInputs, hour : HourInputs,
                 mday : DayInputs, month : MonthInputs, year : YearInputs]
    /\ v_out = FALSE
    /\ ftd = frame(<<>>, 0, CY_RSLT_SUCCESS)

validate_call ==
    /\ pc = "validate_call"
    /\ v_out' = validate_date_time(v_in.sec, v_in.min, v_in.hour, v_in.mday,
                                   v_in.month, v_in.year)
    /\ pc' = "validate_ret"
    /\ UNCHANGED <<dst_data_flag, cmd, dst_cmd, fmt, locals, dst_time, attempts,
                   rslt, inv, v_in, ftd>>

NextValidate == validate_call

SpecValidate == InitValidate /\ [][NextValidate]_vars

(***************************************************************************)
(* fetch_time_data called on its own (main.c:642-681): any line, any       *)
(* budget, one statement group per step                                    *)
(***************************************************************************)
\* the example entry of the format prompt, ended by LF
Line_Example ==
    <<"0", "3", " ", "1", "5", " ", "1", "0", " ", "3", "0", " ", "0", "0", " ", "2", "4", "\n">>
\* more characters than the buffer holds, then a terminator
Line_Full ==
    [i \in 1 .. (STRING_BUFFER_SIZE + 2) |->
        IF i <= STRING_BUFFER_SIZE THEN (IF i % 8 = 0 THEN " " ELSE "x")
        ELSE IF i = STRING_BUFFER_SIZE + 1 THEN "y" ELSE "\r"]
\* one character less than the buffer holds, then a terminator
Line_Brim ==
    [i \in 1 .. STRING_BUFFER_SIZE |->
        IF i < STRING_BUFFER_SIZE THEN "x" ELSE "\n"]
\* a terminator only
Line_Empty ==
    <<"\r">>
\* typing starts after a pause; characters follow the terminator
Line_Late ==
    <<NoByte, NoByte, "1", " ", NoByte, "2", "\n", "3", "\r">>

FetchLines == Lines \cup {Line_Example, Line_Full, Line_Brim, Line_Empty, Line_Late}

\* budgets around the limits of the loop: nothing, one pass, a short line,
\* a full buffer
MaxBudget == 1000
Budgets == {0, 5, 10, 11, 20, 25, 60, 100, 200, 800, 801, 810, 811, 820, MaxBudget}

\* values the uninitialised rslt may hold on entry (main.c:645)
UninitRslt == {CY_RSLT_SUCCESS, CY_SCB_UART_RX_NO_DATA}

InitFetch ==
    /\ pc = "ftd_test"
    /\ dst_data_flag = 0
    /\ cmd = NUL
    /\ dst_cmd = NUL
    /\ fmt = NUL
    /\ mday = 0 /\ month = 0 /\ year = 0 /\ sec = 0 /\ min = 0 /\ hour = 0
    /\ dst_time = [startDst |-> UninitPoint, stopDst |-> UninitPoint]
    /\ attempts = MAX_ATTEMPTS
    /\ rslt = CY_RSLT_SUCCESS
    /\ inv = NewInv("fetch_time_data", 0, <<>>)
    /\ v_in = [sec |-> 0, min |-> 0, hour |-> 0, mday |-> 0, month |-> 0, year |-> 0]
    /\ v_out = FALSE
    /\ ftd \in {frame(l, b, u) : l \in FetchLines, b \in Budgets, u \in UninitRslt}

fetch_frame == <<dst_data_flag, cmd, dst_cmd, fmt, locals, dst_time, attempts,
                 rslt, inv, v_in, v_out>>

\* the loop condition fails: the buffer is full                  (main.c:649)
fetch_full ==
    /\ pc = "ftd_test"
    /\ ~buffer_has_room(ftd.index)
    /\ pc' = "ftd_exit"
    /\ UNCHANGED <<ftd, fetch_frame>>

\* the budget is spent: rslt = CY_SCB_UART_RX_NO_DATA; break  (main.c:651-655)
fetch_timeout ==
    /\ pc = "ftd_test"
    /\ buffer_has_room(ftd.index)
    /\ budget_spent(ftd.timeout_ms)
    /\ ftd' = [ftd EXCEPT !.rslt = CY_SCB_UART_RX_NO_DATA]
    /\ pc' = "ftd_exit"
    /\ UNCHANGED fetch_frame

\* rslt = user_uart_getc(&ch, UART_TIMEOUT_MS)                   (main.c:658)
fetch_getc ==
    /\ pc = "ftd_test"
    /\ buffer_has_room(ftd.index)
    /\ ~budget_spent(ftd.timeout_ms)
    /\ LET g == user_uart_getc(ftd.stream)
       IN  ftd' = [ftd EXCEPT
                     !.rslt = g.rslt,
                     \* *value is written only when a byte was read
                     !.ch = IF g.rslt = CY_RSLT_SUCCESS THEN g.ch ELSE @,
                     !.stream = IF @ = <<>> THEN <<>> ELSE Tail(@),
                     !.reads = @ + 1]
    /\ pc' = "ftd_got"
    /\ UNCHANGED fetch_frame

\* a terminator was read: break                              (main.c:660-665)
fetch_terminator ==
    /\ pc = "ftd_got"
    /\ ftd.rslt # CY_SCB_UART_RX_NO_DATA
    /\ is_terminator(ftd.ch)
    /\ pc' = "ftd_exit"
    /\ UNCHANGED <<ftd, fetch_frame>>

\* any other byte is counted, stored and echoed; then the budget is charged
\*                                                            (main.c:666-676)
fetch_store ==
    /\ pc = "ftd_got"
    /\ ftd.rslt # CY_SCB_UART_RX_NO_DATA
    /\ ~is_terminator(ftd.ch)
    /\ ftd' = [ftd EXCEPT
                 !.space_count = count_space(ftd.ch, @),
                 !.buffer = store(@, ftd.index, ftd.ch),
                 !.written = Append(@, ftd.index),
                 !.out = echo(@, ftd.ch),
                 !.rslt = Cy_SCB_UART_Put(ftd.ch),
                 !.index = @ + 1,
                 !.timeout_ms = spend(@)]
    /\ pc' = "ftd_test"
    /\ UNCHANGED fetch_frame

\* nothing arrived within UART_TIMEOUT_MS: the budget is charged (main.c:676)
fetch_no_data ==
    /\ pc = "ftd_got"
    /\ ftd.rslt = CY_SCB_UART_RX_NO_DATA
    /\ ftd' = [ftd EXCEPT !.timeout_ms = spend(@)]
    /\ pc' = "ftd_test"
    /\ UNCHANGED fetch_frame

\* Cy_SCB_UART_PutString(USER_UART_HW, "\n\r"); return rslt  (main.c:679-680)
fetch_exit ==
    /\ pc = "ftd_exit"
    /\ ftd' = [ftd EXCEPT !.out = end_of_line(@)]
    /\ pc' = "ftd_ret"
    /\ UNCHANGED fetch_frame

NextFetch ==
    \/ fetch_full
    \/ fetch_timeout
    \/ fetch_getc
    \/ fetch_terminator
    \/ fetch_store
    \/ fetch_no_data
    \/ fetch_exit

SpecFetch == InitFetch /\ [][NextFetch]_vars

\* the processor keeps executing
FairSpecFetch == SpecFetch /\ WF_vars(NextFetch)

(***************************************************************************)
(* Vocabulary of the properties                                            *)
(***************************************************************************)
InDst == inv.func = "set_dst_feature"
InSetTime == inv.func = "set_new_time"
Returned == pc = "main"

\* some step of the invocation ended in Timeout or InvalidInput
Aborted ==
    \/ inv.cmd_res = "timeout"
    \/ inv.fmt_res = "timeout"
    \/ inv.start_res \in {"timeout", "invalid"}
    \/ inv.end_res \in {"timeout", "invalid"}

Spaces(buf) == Cardinality({i \in 1 .. Len(buf) : buf[i] = " "})

\* the Gregorian calendar, on mathematical integers
LeapYear(y) == (y % 4 = 0 /\ y % 100 # 0) \/ y % 400 = 0
DaysInMonth(mo, y) ==
    IF mo = 2 THEN (IF LeapYear(y) THEN 29 ELSE 28)
    ELSE IF mo \in {4, 6, 9, 11} THEN 30 ELSE 31
CalendarOk(s, mi, h, md, mo, y) ==
    /\ s \in 0 .. 59 /\ mi \in 0 .. 59 /\ h \in 0 .. 23
    /\ mo \in 1 .. 12 /\ y >= 1
    /\ md \in 1 .. DaysInMonth(mo, y)

\* a line of six integers and five spaces that names a calendar date
WellFormed(buf) ==
    /\ Spaces(buf) = 5
    /\ Len(sscanf(buf)) = 6
    /\ LET v == sscanf(buf) IN CalendarOk(v[5], v[4], v[3], v[2], v[1], v[6])

\* the transition point the entered line and format stand for
PointOf(f, buf) ==
    LET v == sscanf(buf)
        dow == Cy_RTC_ConvertDayOfWeek(v[2], v[1], v[6])
    IN  IF f = "1"
        THEN [format |-> CY_RTC_DST_FIXED, hour |-> ToU32(v[3]), month |-> ToU32(v[1]),
              dayOfWeek |-> ToU32(1), dayOfMonth |-> ToU32(v[2]),
              weekOfMonth |-> ToU32(1)]
        ELSE [format |-> CY_RTC_DST_RELATIVE, hour |-> ToU32(v[3]),
              month |-> ToU32(v[1]), dayOfWeek |-> ToU32(dow),
              dayOfMonth |-> ToU32(1), weekOfMonth |-> ToU32(dow)]

CanonicalPoint ==
    [format |-> CY_RTC_DST_FIXED, hour |-> ToU32(0), month |-> ToU32(1),
     dayOfWeek |-> ToU32(1), dayOfMonth |-> ToU32(1), weekOfMonth |-> ToU32(1)]

(***************************************************************************)
(* C1.  On the Enable path Cy_RTC_EnableDstTime is called only if a start  *)
(* line and an end line were both collected and accepted within the same   *)
(* invocation, and an invocation in which some step ended in Timeout or    *)
(* InvalidInput makes no hardware DST write, whatever dst_data_flag was on *)
(* entry.                                                                  *)
(***************************************************************************)
C1_EnableWriteOnlyAfterValidPair ==
    (InDst /\ inv.path = "enable") =>
        /\ (inv.dst_writes # <<>> =>
                inv.start_res = "valid" /\ inv.end_res = "valid")
        /\ (Aborted => inv.dst_writes = <<>> /\ pc # "dst_enable")

(***************************************************************************)
(* C2.  When an invocation of set_dst_feature ends because of a Timeout or *)
(* an InvalidInput at any step, dst_data_flag at return equals its value   *)
(* at entry.                                                               *)
(***************************************************************************)
C2_AbortKeepsFlag ==
    (InDst /\ Returned /\ Aborted) => dst_data_flag = inv.entry_flag

(***************************************************************************)
(* C3.  At every return from set_dst_feature dst_data_flag is              *)
(* DST_DISABLED_FLAG or DST_ENABLED_FLAG.                                  *)
(***************************************************************************)
C3_FlagTerminalAtReturn ==
    (InDst /\ Returned) => dst_data_flag \in {DST_DISABLED_FLAG, DST_ENABLED_FLAG}

(***************************************************************************)
(* C4.  On the Enable path with a recognised format, a well-formed start   *)
(* line and then a well-formed end line, the flag is written valid-start,  *)
(* valid-end, Enabled in that order, Cy_RTC_EnableDstTime is called        *)
(* exactly once with the points the two lines stand for, and Enabled is    *)
(* written only after the call reported success.                           *)
(***************************************************************************)
C4_Premise ==
    /\ InDst /\ inv.path = "enable"
    /\ fmt \in {"1", "2"}
    /\ inv.start_res = "valid" /\ WellFormed(inv.start_str)
    /\ inv.end_res = "valid" /\ WellFormed(inv.end_str)

C4_EnableCommitsParsedPair ==
    C4_Premise =>
        IF pc = "dst_enable"
        THEN /\ inv.flags = <<DST_VALID_START_TIME_FLAG, DST_VALID_END_TIME_FLAG>>
             /\ inv.dst_writes = <<>>
             /\ dst_data_flag = DST_VALID_END_TIME_FLAG
        ELSE /\ Len(inv.dst_writes) = 1
             /\ inv.dst_writes[1].dst.startDst = PointOf(fmt, inv.start_str)
             /\ inv.dst_writes[1].dst.stopDst = PointOf(fmt, inv.end_str)
             /\ IF inv.dst_writes[1].status = CY_RTC_SUCCESS
                THEN /\ inv.flags = <<DST_VALID_START_TIME_FLAG,
                                      DST_VALID_END_TIME_FLAG, DST_ENABLED_FLAG>>
                     /\ dst_data_flag = DST_ENABLED_FLAG
                     /\ pc = "main"
                ELSE /\ inv.flags = <<DST_VALID_START_TIME_FLAG,
                                      DST_VALID_END_TIME_FLAG>>
                     /\ dst_data_flag = DST_VALID_END_TIME_FLAG
                     /\ pc = "halted"

C4_Witness ==
    /\ C4_Premise
    /\ fmt = "2"
    /\ inv.start_buf # inv.end_buf
    /\ inv.entry_flag = DST_VALID_START_TIME_FLAG
    /\ pc = "main"
    /\ dst_data_flag = DST_ENABLED_FLAG

(***************************************************************************)
(* C5.  On the Disable path, whatever the flag was on entry, exactly one   *)
(* hardware DST write is issued, its start and stop points are both the    *)
(* canonical point (Fixed, hour 0, month 1, day of month 1, day of week 1, *)
(* week of month 1), and on success the flag is Disabled at return.        *)
(***************************************************************************)
C5_DisableWritesCanonicalPair ==
    (InDst /\ dst_cmd = "2") =>
        IF pc = "dst_disable"
        THEN inv.dst_writes = <<>>
        ELSE /\ Len(inv.dst_writes) = 1
             /\ inv.dst_writes[1].dst =
                    [startDst |-> CanonicalPoint, stopDst |-> CanonicalPoint]
             /\ (inv.dst_writes[1].status = CY_RTC_SUCCESS =>
                    pc = "main" /\ dst_data_flag = DST_DISABLED_FLAG)

C5_Witness ==
    /\ InDst /\ dst_cmd = "2"
    /\ inv.entry_flag = DST_ENABLED_FLAG
    /\ pc = "main"
    /\ Len(inv.dst_writes) = 1
    /\ dst_data_flag = DST_DISABLED_FLAG

(***************************************************************************)
(* C6.  When the sub-menu command read times out, or the command byte is   *)
(* Quit ('3'), set_dst_feature returns without a hardware DST write and    *)
(* with dst_data_flag as it was on entry.                                  *)
(***************************************************************************)
C6_QuitOrTimeoutIsNoOp ==
    (InDst /\ (inv.cmd_res = "timeout" \/ dst_cmd = "3")) =>
        /\ pc = "main"
        /\ inv.dst_writes = <<>>
        /\ inv.flags = <<>>
        /\ dst_data_flag = inv.entry_flag

C6_Witness ==
    /\ InDst /\ dst_cmd = "3"
    /\ inv.entry_flag = DST_ENABLED_FLAG
    /\ pc = "main"

(***************************************************************************)
(* C7.  The hardware DST write is attempted at most once per invocation of *)
(* set_dst_feature; if the attempt reports failure the flow is in          *)
(* handle_error, without a retry and without Enabled (Enable path) or      *)
(* Disabled (Disable path) having been written to dst_data_flag.           *)
(***************************************************************************)
C7_SingleAttemptFatalOnFailure ==
    InDst =>
        /\ Len(inv.dst_writes) <= 1
        /\ (inv.dst_writes # <<>> /\ inv.dst_writes[1].status # CY_RTC_SUCCESS) =>
              /\ pc = "halted"
              /\ \A i \in 1 .. Len(inv.flags) :
                    inv.flags[i] \notin {DST_ENABLED_FLAG, DST_DISABLED_FLAG}
              /\ dst_data_flag = IF dst_cmd = "1" THEN DST_VALID_END_TIME_FLAG
                                 ELSE inv.entry_flag

C7_Witness ==
    /\ InDst /\ dst_cmd = "1"
    /\ pc = "halted"
    /\ Len(inv.dst_writes) = 1
    /\ inv.dst_writes[1].status = CY_RTC_NOT_SUCCESS

(***************************************************************************)
(* C8.  In set_new_time Cy_RTC_SetDateAndTimeDirect is attempted only when *)
(* the collected line did not time out, has exactly 5 spaces and its six   *)
(* parsed fields pass the calendar validation.                             *)
(***************************************************************************)
C8_SetTimeOnlyAfterValidation ==
    (InSetTime /\ inv.hw_calls > 0) =>
        /\ inv.line_res # "timeout"
        /\ Spaces(inv.line_buf) = 5
        /\ validate_date_time(sec, min, hour, mday, month, year)

(***************************************************************************)
(* C9.  The retry loops of rtc_init and set_new_time make at least 1 and   *)
(* at most MAX_ATTEMPTS hardware attempts, stop at the first attempt that  *)
(* reports success, always terminate, and end in the fatal error handler   *)
(* if and only if all MAX_ATTEMPTS attempts failed.                        *)
(***************************************************************************)
InRetryLoop == pc \in {"rtc_init", "snt_set"}
AfterRetryLoop == pc \in {"rtc_init_ret", "snt_done"}
RanRetryLoop == inv.func \in {"rtc_init", "set_new_time"} /\ inv.hw_calls > 0

C9_Bounds ==
    /\ inv.hw_calls <= MAX_ATTEMPTS
    \* no attempt has succeeded while the loop is still running
    /\ InRetryLoop => inv.hw_failed = inv.hw_calls /\ inv.hw_calls < MAX_ATTEMPTS
    /\ AfterRetryLoop =>
          /\ inv.hw_calls >= 1
          /\ IF rslt = CY_RTC_SUCCESS
             THEN inv.hw_failed = inv.hw_calls - 1
             ELSE inv.hw_failed = MAX_ATTEMPTS /\ inv.hw_calls = MAX_ATTEMPTS
    /\ (pc = "halted" /\ RanRetryLoop) =>
          inv.hw_failed = MAX_ATTEMPTS /\ inv.hw_calls = MAX_ATTEMPTS
    /\ (pc = "main" /\ RanRetryLoop) => inv.hw_failed = inv.hw_calls - 1

C9_RetryBoundedAndTerminates ==
    /\ []C9_Bounds
    /\ (InRetryLoop ~> ~InRetryLoop)
    /\ ((AfterRetryLoop /\ inv.hw_failed = MAX_ATTEMPTS) ~> pc = "halted")

C9_Witness ==
    /\ pc = "snt_done"
    /\ inv.hw_calls = MAX_ATTEMPTS
    /\ inv.hw_failed = MAX_ATTEMPTS - 1
    /\ rslt = CY_RTC_SUCCESS

(***************************************************************************)
(* C10.  For sec, min in [0,59], hour in [0,23], month in [1,12] and       *)
(* year >= 0, validate_date_time returns true if and only if day is in     *)
(* [1, days_in_month(month, year)]; in particular Feb 29 1900 is rejected  *)
(* and Feb 29 2000 is accepted.                                            *)
(***************************************************************************)
C10_ValidateIffDayInMonth ==
    (/\ pc = "validate_ret"
     /\ v_in.sec \in 0 .. 59 /\ v_in.min \in 0 .. 59 /\ v_in.hour \in 0 .. 23
     /\ v_in.month \in 1 .. 12 /\ v_in.year >= 0) =>
        (v_out <=> v_in.mday \in 1 .. DaysInMonth(v_in.month, v_in.year))

(***************************************************************************)
(* C11.  validate_date_time returns false for every out-of-domain input:   *)
(* sec or min outside [0,59], hour outside [0,23], month outside [1,12], a *)
(* negative year, or a day of month that is <= 0 or greater than the       *)
(* number of days in the month.                                            *)
(***************************************************************************)
OutOfDomain(s, mi, h, md, mo, y) ==
    \/ s \notin 0 .. 59
    \/ mi \notin 0 .. 59
    \/ h \notin 0 .. 23
    \/ mo \notin 1 .. 12
    \/ y < 0
    \/ md <= 0
    \/ md > DaysInMonth(mo, y)

C11_OutOfDomainRejected ==
    (/\ pc = "validate_ret"
     /\ OutOfDomain(v_in.sec, v_in.min, v_in.hour, v_in.mday, v_in.month,
                    v_in.year)) => (v_out = FALSE)

(***************************************************************************)
(* Vocabulary of the properties of fetch_time_data: what a line and a      *)
(* budget stand for, stated on the line itself                             *)
(***************************************************************************)
Terminators == {"\n", "\r"}

\* the line gathered: buffer[0 .. index-1]
Gathered == [i \in 1 .. ftd.index |-> ftd.buffer[i - 1]]

\* the first n deliveries of a line
Deliveries(line, n) == SubSeq(line, 1, IF n < Len(line) THEN n ELSE Len(line))

\* the characters among the first n deliveries
Typed(line, n) == SelectSeq(Deliveries(line, n), LAMBDA c : c # NoByte)

\* the characters other than terminators among the first n deliveries
Printable(line, n) ==
    SelectSeq(Deliveries(line, n), LAMBDA c : c # NoByte /\ c \notin Terminators)

\* the delivery that brings the first terminator (0: there is none)
TerminatorAt(line) ==
    IF \E i \in 1 .. Len(line) : line[i] \in Terminators
    THEN CHOOSE i \in 1 .. Len(line) :
            /\ line[i] \in Terminators
            /\ \A j \in 1 .. (i - 1) : line[j] \notin Terminators
    ELSE 0

\* the delivery that brings the character filling the buffer (0: none does)
FullAt(line) ==
    IF Len(Typed(line, Len(line))) >= STRING_BUFFER_SIZE
    THEN CHOOSE i \in 1 .. Len(line) :
            /\ line[i] # NoByte
            /\ Len(Typed(line, i)) = STRING_BUFFER_SIZE
    ELSE 0

\* the number of 10 ms reads a budget pays for: one for every 10 ms in
\* excess of UART_TIMEOUT_MS
Passes(budget) ==
    IF budget <= UART_TIMEOUT_MS THEN 0 ELSE (budget - 1) \div UART_TIMEOUT_MS

\* a terminator arrives within the budget and before the buffer is full
EndsByTerminator(line, budget) ==
    LET p == TerminatorAt(line)
    IN  /\ p > 0
        /\ p <= Passes(budget)
        /\ Len(Typed(line, p - 1)) < STRING_BUFFER_SIZE

\* STRING_BUFFER_SIZE characters arrive within the budget, no terminator
\* among or before them
EndsByFull(line, budget) ==
    LET q == FullAt(line)
    IN  /\ q > 0
        /\ q <= Passes(budget)
        /\ \A j \in 1 .. q : line[j] \notin Terminators

\* the statement-by-statement rendering returns what the operator
\* fetch_time_data computes
FetchAgrees ==
    (pc = "ftd_ret") =>
        LET r == fetch_time_data(ftd.line, ftd.budget)
        IN  /\ r.rslt = ftd.rslt
            /\ r.buffer = Gathered
            /\ r.space_count = ftd.space_count
            /\ r.out = ftd.out
            /\ r.timeout_ms = ftd.timeout_ms

(***************************************************************************)
(* C12.  When a terminator arrives before the budget runs out and before   *)
(* 80 characters were stored, fetch_time_data returns a non-timeout        *)
(* status, the buffer holds exactly the characters received before the     *)
(* terminator, in arrival order, and *space_count is the number of spaces  *)
(* among them ("03 15 10 30 00 24" and a newline give that line and 5).    *)
(***************************************************************************)
C12_LineUpToTerminator ==
    (pc = "ftd_ret" /\ EndsByTerminator(ftd.line, ftd.budget)) =>
        /\ ftd.rslt # CY_SCB_UART_RX_NO_DATA
        /\ Gathered = Typed(ftd.line, TerminatorAt(ftd.line) - 1)
        /\ ftd.space_count = Spaces(Gathered)

C12_Witness ==
    /\ pc = "ftd_ret"
    /\ ftd.line = Line_Example
    /\ ftd.budget = 200
    /\ Gathered = SubSeq(Line_Example, 1, 17)
    /\ ftd.space_count = 5
    /\ ftd.rslt = CY_RSLT_SUCCESS

(***************************************************************************)
(* C13.  fetch_time_data never writes a buffer cell of index >= 80: at     *)
(* most 80 characters are stored, and when 80 characters arrive within the *)
(* budget with no terminator the function returns the first 80 of them     *)
(* with a non-timeout status.                                              *)
(***************************************************************************)
C13_NoWriteBeyondBuffer ==
    /\ \A k \in 1 .. Len(ftd.written) :
            ftd.written[k] \in 0 .. (STRING_BUFFER_SIZE - 1)
    /\ Len(ftd.written) <= STRING_BUFFER_SIZE
    /\ (pc = "ftd_ret" /\ EndsByFull(ftd.line, ftd.budget)) =>
            /\ ftd.index = STRING_BUFFER_SIZE
            /\ Gathered = Typed(ftd.line, FullAt(ftd.line))
            /\ ftd.rslt # CY_SCB_UART_RX_NO_DATA

C13_Witness ==
    /\ pc = "ftd_ret"
    /\ ftd.line = Line_Full
    /\ ftd.budget = 801
    /\ Len(ftd.written) = STRING_BUFFER_SIZE
    /\ Gathered = SubSeq(Line_Full, 1, STRING_BUFFER_SIZE)

(***************************************************************************)
(* C14.  fetch_time_data returns CY_SCB_UART_RX_NO_DATA if and only if the *)
(* remaining budget drops to <= UART_TIMEOUT_MS before a terminator is     *)
(* received and before the buffer is full; with no input at all it returns *)
(* it with an empty line, and never after a terminator was received.       *)
(***************************************************************************)
C14_TimeoutIffBudgetSpent ==
    /\ (pc = "ftd_ret") =>
            /\ (ftd.rslt = CY_SCB_UART_RX_NO_DATA) <=>
                    /\ ~EndsByTerminator(ftd.line, ftd.budget)
                    /\ ~EndsByFull(ftd.line, ftd.budget)
            /\ (ftd.rslt = CY_SCB_UART_RX_NO_DATA) =>
                    /\ ftd.timeout_ms \in 0 .. UART_TIMEOUT_MS
                    /\ ftd.index < STRING_BUFFER_SIZE
            /\ (ftd.line = <<>>) =>
                    ftd.rslt = CY_SCB_UART_RX_NO_DATA /\ ftd.index = 0
    /\ (pc \in {"ftd_exit", "ftd_ret"} /\ ftd.reads > 0
            /\ ftd.reads <= Len(ftd.line)
            /\ ftd.line[ftd.reads] \in Terminators) =>
            ftd.rslt # CY_SCB_UART_RX_NO_DATA

C14_Witness ==
    /\ pc = "ftd_ret"
    /\ ftd.line = Line_Mar15
    /\ ftd.budget = 100
    /\ ftd.rslt = CY_SCB_UART_RX_NO_DATA
    /\ ftd.index = 9

(***************************************************************************)
(* C15.  Every stored character is echoed to the sink exactly once, in     *)
(* order, before the next character is read; terminators are not echoed;   *)
(* the final "\n\r" is written exactly once on every exit path.            *)
(***************************************************************************)
C15_EchoOncePerStoredCharacter ==
    /\ (pc = "ftd_test") =>
            ftd.out = Printable(ftd.line, ftd.reads) /\ ftd.out = Gathered
    /\ (pc = "ftd_got") =>
            ftd.out = Printable(ftd.line, ftd.reads - 1) /\ ftd.out = Gathered
    /\ (pc = "ftd_exit") =>
            ftd.out = Printable(ftd.line, ftd.reads) /\ ftd.out = Gathered
    /\ (pc = "ftd_ret") =>
            ftd.out = Printable(ftd.line, ftd.reads) \o <<"\n", "\r">>
               /\ ftd.out = Gathered \o <<"\n", "\r">>

C15_Witness ==
    /\ pc = "ftd_ret"
    /\ ftd.line = Line_NoEnd
    /\ ftd.rslt = CY_SCB_UART_RX_NO_DATA
    /\ ftd.out = <<"0", "3", " ", "1", "5", "\n", "\r">>

(***************************************************************************)
(* C16.  Every transition point passed to Cy_RTC_EnableDstTime on the      *)
(* Enable path is format-consistent: Fixed has dayOfWeek = 1, weekOfMonth  *)
(* = 1 and dayOfMonth = the entered day; Relative has dayOfMonth = 1 and   *)
(* dayOfWeek = weekOfMonth = ConvertDayOfWeek(day, month, year); hour and  *)
(* month are the entered values; start and stop carry the same format.     *)
(***************************************************************************)
FormatConsistent(point) ==
    IF point.format = CY_RTC_DST_FIXED
    THEN point.dayOfWeek = ToU32(1) /\ point.weekOfMonth = ToU32(1)
    ELSE point.dayOfMonth = ToU32(1) /\ point.dayOfWeek = point.weekOfMonth

\* six values were entered on the line
SixEntered(buf) == Len(sscanf(buf)) = 6

C16_EnablePointsFormatConsistent ==
    (InDst /\ inv.path = "enable") =>
        \A k \in 1 .. Len(inv.dst_writes) :
            LET w == inv.dst_writes[k].dst
            IN  /\ FormatConsistent(w.startDst)
                /\ FormatConsistent(w.stopDst)
                /\ w.startDst.format = w.stopDst.format
                /\ SixEntered(inv.start_buf) =>
                        w.startDst = PointOf(fmt, inv.start_str)
                /\ SixEntered(inv.end_buf) =>
                        w.stopDst = PointOf(fmt, inv.end_str)

(***************************************************************************)
(* C17.  A date/time line, in set_new_time and for both DST lines, is      *)
(* accepted only if it consists of exactly six integer tokens separated by *)
(* exactly 5 spaces; any other line is rejected as InvalidInput and        *)
(* reaches neither a transition-point build nor a hardware write.          *)
(***************************************************************************)
NoSpace(buf) == \A i \in 1 .. Len(buf) : buf[i] # " "

FirstSpace(buf) ==
    CHOOSE i \in 1 .. Len(buf) :
        buf[i] = " " /\ \A j \in 1 .. (i - 1) : buf[j] # " "

\* the tokens between the spaces of a line
RECURSIVE Tokens(_)
Tokens(buf) ==
    IF NoSpace(buf) THEN <<buf>>
    ELSE <<SubSeq(buf, 1, FirstSpace(buf) - 1)>>
            \o Tokens(SubSeq(buf, FirstSpace(buf) + 1, Len(buf)))

\* an optional sign and one or more decimal digits
IsInteger(token) ==
    LET digits == IF token # <<>> /\ token[1] \in {"+", "-"}
                  THEN Tail(token) ELSE token
    IN  digits # <<>> /\ \A i \in 1 .. Len(digits) : IsDigit(digits[i])

SixByFive(buf) ==
    /\ Len(Tokens(buf)) = 6
    /\ \A i \in 1 .. 6 : IsInteger(Tokens(buf)[i])

C17_OnlySixByFiveAccepted ==
    /\ (InSetTime /\ inv.hw_calls > 0) => SixByFive(inv.line_buf)
    /\ (InDst /\ inv.start_res = "valid") => SixByFive(inv.start_buf)
    /\ (InDst /\ inv.end_res = "valid") => SixByFive(inv.end_buf)

(***************************************************************************)
(* C18.  Within an invocation of set_dst_feature the end-time line is      *)
(* prompted for and collected if and only if a valid start time was        *)
(* received earlier in that invocation, whatever dst_data_flag was on      *)
(* entry.                                                                  *)
(***************************************************************************)
C18_EndLineIffValidStart ==
    InDst =>
        ((pc = "dst_end" \/ inv.end_res # "none") <=> inv.start_res = "valid")

(***************************************************************************)
(* C19.  The fields validated and used to build the end transition point   *)
(* are exactly the six values parsed from the end-time line; no value      *)
(* parsed from the start-time line is reused for it.                       *)
(***************************************************************************)
C19_EndPointFromEndLine ==
    (InDst /\ inv.end_res = "valid") =>
        /\ SixEntered(inv.end_buf)
        /\ dst_time.stopDst = PointOf(fmt, inv.end_str)

(***************************************************************************)
(* C20.  For every line and every budget fetch_time_data terminates after  *)
(* at most ceil(timeout_ms / UART_TIMEOUT_MS) calls of user_uart_getc, and *)
(* the unsigned timeout_ms never wraps below zero: it is decremented by    *)
(* UART_TIMEOUT_MS only when it is greater than UART_TIMEOUT_MS.           *)
(***************************************************************************)
CeilDiv(a, b) == (a + (b - 1)) \div b

C20_Bounds ==
    /\ ftd.reads <= CeilDiv(ftd.budget, UART_TIMEOUT_MS)
    /\ ftd.timeout_ms \in 0 .. ftd.budget

C20_Charge ==
    (ftd'.timeout_ms # ftd.timeout_ms) =>
        /\ ftd.timeout_ms > UART_TIMEOUT_MS
        /\ ftd'.timeout_ms = ftd.timeout_ms - UART_TIMEOUT_MS

C20_BoundedReadsNoWrap ==
    /\ []C20_Bounds
    /\ [][C20_Charge]_vars
    /\ <>(pc = "ftd_ret")

C20_Witness ==
    /\ pc = "ftd_ret"
    /\ ftd.line = Line_Silent
    /\ ftd.budget = MaxBudget
    /\ ftd.reads = Passes(MaxBudget)
    /\ ftd.reads > STRING_BUFFER_SIZE
    /\ ftd.timeout_ms <= UART_TIMEOUT_MS

(***************************************************************************)
(* C21.  Within one invocation of set_dst_feature the timeout budget is    *)
(* shared across the steps: every input step is given only what remains of *)
(* timeout_ms after the time already spent waiting in the earlier steps,   *)
(* so the total time spent waiting for input never exceeds timeout_ms.     *)
(***************************************************************************)
C21_BudgetSharedAcrossSteps ==
    InDst =>
        /\ \A k \in 1 .. Len(inv.budgets) :
                inv.budgets[k].given = INPUT_TIMEOUT_MS - inv.budgets[k].spent
        /\ inv.waited <= INPUT_TIMEOUT_MS

(***************************************************************************)
(* C22.  Whenever set_dst_feature is not executing, dst_data_flag equals   *)
(* DST_ENABLED_FLAG if and only if the most recent successful hardware DST *)
(* write was made by the Enable path; so the status shown at entry is      *)
(* "Disabled" only when no user-entered rule is committed in the hardware. *)
(***************************************************************************)
DstExecuting ==
    \/ pc \in {"dst_cmd", "dst_fmt", "dst_start", "dst_end", "dst_enable",
               "dst_disable"}
    \/ pc = "halted" /\ InDst

C22_FlagTracksCommittedRule ==
    /\ ~DstExecuting =>
            (dst_data_flag = DST_ENABLED_FLAG <=> inv.committed = "enable")
    /\ (InDst /\ inv.out # <<>> /\ inv.out[1] = "Status Disabled") =>
            inv.committed # "enable" \/ inv.dst_writes # <<>>

(***************************************************************************)
(* C23.  In set_new_time "RTC time updated" is written to the terminal     *)
(* only if a Cy_RTC_SetDateAndTimeDirect call reported success; it is      *)
(* never written in an invocation in which every attempt failed.           *)
(***************************************************************************)
Written(message) == \E k \in 1 .. Len(inv.out) : inv.out[k] = message

C23_UpdatedOnlyAfterSuccess ==
    (InSetTime /\ Written("RTC time updated")) =>
        inv.hw_failed < inv.hw_calls

(***************************************************************************)
(* C24.  Whenever a collected line is handed to sscanf, in set_new_time or *)
(* set_dst_feature, the 80-byte buffer holds a NUL within its capacity:    *)
(* at most 79 characters were stored into the zeroed buffer, so the        *)
(* conversion never reads past its end.                                    *)
(***************************************************************************)
\* sscanf was called on the line: it was collected without timeout and has
\* MIN_SPACE_KEY_COUNT spaces
Parsed(res, buf) ==
    res \in {"valid", "invalid", "parsed"} /\ Spaces(buf) = MIN_SPACE_KEY_COUNT

C24_ParsedLineIsTerminated ==
    /\ (InSetTime /\ Parsed(inv.line_res, inv.line_buf)) =>
            Len(inv.line_buf) < STRING_BUFFER_SIZE
    /\ (InDst /\ Parsed(inv.start_res, inv.start_buf)) =>
            Len(inv.start_buf) < STRING_BUFFER_SIZE
    /\ (InDst /\ Parsed(inv.end_res, inv.end_buf)) =>
            Len(inv.end_buf) < STRING_BUFFER_SIZE

====
